---- MODULE Spec2Model ----
(***************************************************************************)
(* Script repository of blender-mcp (src/scripts/manager.py).              *)
(*                                                                         *)
(* A text (a script name, a script body, a result) is a sequence of        *)
(* one-character strings.  The three stores of ScriptManager are files     *)
(* under scripts/, results/ and the metadata.json document; the            *)
(* in-memory index self.metadata is an insertion-ordered dictionary,       *)
(* modelled as a sequence of <<key, value>> items.                         *)
(***************************************************************************)
EXTENDS Naturals, Sequences, FiniteSets, TLC

VARIABLES
    scriptFiles,    \* scripts/<name>.py   : NoFile, or File(text)
    resultFiles,    \* results/<name>.txt  : NoFile, or File(text)
    metadata,       \* self.metadata       : sequence of [key, value] items
    metadataFile,   \* metadata.json       : the document on disk
    clock,          \* the wall clock read by datetime.datetime.now()
    last,           \* the call that completed last and how it ended
    \* History of the calls made, per name:
    given,          \* body passed to the last successful add/edit
    lastSaved,      \* text of the last save_result not yet removed
    savesSinceAdd,  \* save_result calls since the name was added
    removedSince,   \* names removed and not added again since
    \* The execution harness (src/blender/executor.py):
    envelopeFiles,  \* <temp_dir>/<name>.py  : NoFile, or File(envelope)
    outputFiles,    \* <temp_dir>/<name>.out : NoFile, or File(text)
    execs,          \* each call of execute: its position, arguments, result
    hosts,          \* the host process each call of execute has launched
    \* The facade (src/server.py):
    reply           \* what the tool called last gave its caller

vars == <<scriptFiles, resultFiles, metadata, metadataFile, clock, last,
          given, lastSaved, savesSinceAdd, removedSince,
          envelopeFiles, outputFiles, execs, hosts, reply>>

scratch == <<envelopeFiles, outputFiles>>

harness == <<envelopeFiles, outputFiles, execs, hosts>>

repo == <<scriptFiles, resultFiles, metadata, metadataFile>>

history == <<given, lastSaved, savesSinceAdd, removedSince>>

---------------------------------------------------------------------------
(* Bounds of the model.                                                    *)

\* The number of clock readings (add, edit, save_result with an entry).
\* Each reading of datetime.datetime.now() yields the next time, so the
\* time stamps of a run are 1..MaxClock and 0 is the time of construction.
MaxClock == 3

---------------------------------------------------------------------------
(* Inputs.                                                                 *)

\* Names a caller passes: accepted ones, and ones the validator must reject.
Names ==
    { <<"a">>, <<"Z", "-", "9", "_">>, <<>>, <<"a", "/">> }

\* Script bodies and result texts a caller passes.
Texts ==
    { <<"x">>, <<"x", "\r", "\n", "y">> }

\* An optional value: Python's None, or a value.
None == <<>>

Some(t) == <<t>>

\* A path of the file system: no file there, or a file holding a text.
NoFile == <<>>

File(t) == <<t>>

Content(f) == f[1]

---------------------------------------------------------------------------
(* Text-mode file input and output (open(path, "w") / open(path, "r")).    *)

\* os.linesep of the platform the server runs on (POSIX).
LineSep == <<"\n">>

RECURSIVE WriteText(_)
\* f.write(text) on a file opened with "w": "\n" becomes os.linesep.
WriteText(t) ==
    IF t = <<>> THEN <<>>
    ELSE (IF Head(t) = "\n" THEN LineSep ELSE <<Head(t)>>) \o WriteText(Tail(t))

RECURSIVE ReadText(_)
\* f.read() on a file opened with "r": "\r\n" and "\r" become "\n".
ReadText(t) ==
    IF t = <<>> THEN <<>>
    ELSE IF Head(t) = "\r"
         THEN IF Len(t) >= 2 /\ t[2] = "\n"
              THEN <<"\n">> \o ReadText(Tail(Tail(t)))
              ELSE <<"\n">> \o ReadText(Tail(t))
         ELSE <<Head(t)>> \o ReadText(Tail(t))

---------------------------------------------------------------------------
(* _validate_script_name                                                   *)

Lower ==
    { "a", "b", "c", "d", "e", "f", "g", "h", "i", "j", "k", "l", "m",
      "n", "o", "p", "q", "r", "s", "t", "u", "v", "w", "x", "y", "z" }

Upper ==
    { "A", "B", "C", "D", "E", "F", "G", "H", "I", "J", "K", "L", "M",
      "N", "O", "P", "Q", "R", "S", "T", "U", "V", "W", "X", "Y", "Z" }

Digit == { "0", "1", "2", "3", "4", "5", "6", "7", "8", "9" }

\* The character class [a-zA-Z0-9_-].
NameChar(c) == c \in Lower \/ c \in Upper \/ c \in Digit \/ c = "_" \/ c = "-"

\* re.match(r'^[a-zA-Z0-9_-]+$', name): one or more class characters from
\* the start, then the end of the string; "$" also matches just before a
\* line break that ends the string.
ValidateScriptName(name) ==
    \E k \in 1..Len(name) :
        /\ \A i \in 1..k : NameChar(name[i])
        /\ \/ k = Len(name)
           \/ k = Len(name) - 1 /\ name[Len(name)] = "\n"

---------------------------------------------------------------------------
(* The dictionary self.metadata.                                           *)

HasKey(md, name) == \E i \in 1..Len(md) : md[i].key = name

IndexOf(md, name) == CHOOSE i \in 1..Len(md) : md[i].key = name

Lookup(md, name) == md[IndexOf(md, name)].value

\* A changed md[name] = value: the key is taken out and put back.
DictSetReinserted(md, name, value) ==
    IF HasKey(md, name)
    THEN Append(SubSeq(md, 1, IndexOf(md, name) - 1)
                    \o SubSeq(md, IndexOf(md, name) + 1, Len(md)),
                [key |-> name, value |-> value])
    ELSE Append(md, [key |-> name, value |-> value])

\* md[name] = value: a present key keeps its position, a new key goes last.
DictSet(md, name, value) ==
    IF HasKey(md, name)
    THEN [md EXCEPT ![IndexOf(md, name)].value = value]
    ELSE Append(md, [key |-> name, value |-> value])

\* del md[name]
DictDel(md, name) ==
    LET i == IndexOf(md, name)
    IN  SubSeq(md, 1, i - 1) \o SubSeq(md, i + 1, Len(md))

\* json.dump(self.metadata, f): the whole index is written.
SaveMetadata(md) == [kind |-> "mapping", entries |-> md]

---------------------------------------------------------------------------
(* What a completed call reports.                                          *)

\* A call that returned `ret`.
Returned(op, name, ret) ==
    [op |-> op, name |-> name, outcome |-> "ok", ret |-> ret]

\* A call that raised; `kind` names the exception by what its text says:
\* "ValidationError", "AlreadyExists" and "NotFound" are the three
\* ValueErrors of the manager, "KeyError" is a failed dictionary lookup.
Raised(op, name, kind) ==
    [op |-> op, name |-> name, outcome |-> kind, ret |-> <<>>]

\* A call that raised before it touched anything.
Rejects(op, name, kind) ==
    /\ last' = Raised(op, name, kind)
    /\ UNCHANGED <<repo, clock, history>>

\* f"No execution results found for script '{name}'"
SoftMiss(name) ==
    <<"No execution results found for script '">> \o name \o <<"'">>

\* Names put to the validator alone: with a trailing line break, a lone
\* line break, a blank inside, besides the ones above.
ValidatorNames ==
    { <<"a">>, <<"a", "\n">>, <<>>, <<"\n">>, <<"a", "/">>, <<"a", " ", "b">> }

\* Every path the directories can hold a file under.
FileNames == Names \cup ValidatorNames

\* The calls of execute that can be open at a time.
ExecIds == {"e1", "e2"}

\* A call of execute that has not been made.
Idle ==
    [pc |-> "idle", name |-> <<>>, content |-> <<>>, blend |-> None,
     ret |-> <<>>, logged |-> FALSE, facade |-> FALSE,
     overlapped |-> FALSE]

\* No process launched by the call.
NoHost ==
    [state |-> "none", cmd |-> <<>>, launches |-> 0, wrote |-> FALSE,
     capture |-> None, code |-> 0, stdout |-> <<>>, stderr |-> <<>>]

---------------------------------------------------------------------------
(* __init__ on an empty directory.                                         *)

Init ==
    /\ scriptFiles = [n \in FileNames |-> NoFile]
    /\ resultFiles = [n \in FileNames |-> NoFile]
    /\ metadata = <<>>
    /\ metadataFile = SaveMetadata(<<>>)
    /\ clock = 0
    /\ last = Returned("init", <<>>, <<>>)
    /\ given = [n \in FileNames |-> None]
    /\ lastSaved = [n \in FileNames |-> None]
    /\ savesSinceAdd = [n \in FileNames |-> None]
    /\ removedSince = {}
    /\ envelopeFiles = [n \in FileNames |-> NoFile]
    /\ outputFiles = [n \in FileNames |-> NoFile]
    /\ execs = [e \in ExecIds |-> Idle]
    /\ hosts = [e \in ExecIds |-> NoHost]
    /\ reply = Returned("init", <<>>, <<>>)

---------------------------------------------------------------------------
(* list_scripts                                                            *)

\* Each entry's attributes with the key added as "name", in index order.
ListScriptsResult(md) ==
    [i \in 1..Len(md) |->
        [created |-> md[i].value.created,
         last_modified |-> md[i].value.last_modified,
         last_executed |-> md[i].value.last_executed,
         execution_count |-> md[i].value.execution_count,
         name |-> md[i].key]]

ListScripts ==
    /\ last' = Returned("list", <<>>, ListScriptsResult(metadata))
    /\ UNCHANGED <<repo, clock, history>>

---------------------------------------------------------------------------
(* add_script                                                              *)

\* A changed add_script: it tests the result path, not the script path.
AddAlreadyExistsByResult(name) == resultFiles[name] # NoFile

\* script_path.exists() in add_script
AddAlreadyExists(name) == scriptFiles[name] # NoFile

\* The entry add_script inserts.
NewEntry(now) ==
    [created |-> now, last_modified |-> now,
     last_executed |-> None, execution_count |-> 0]

AddScript(name, content) ==
    IF ~ValidateScriptName(name) THEN Rejects("add", name, "ValidationError")
    ELSE IF AddAlreadyExists(name) THEN Rejects("add", name, "AlreadyExists")
    ELSE /\ clock < MaxClock
         /\ clock' = clock + 1
         /\ scriptFiles' = [scriptFiles EXCEPT ![name] = File(WriteText(content))]
         /\ metadata' = DictSet(metadata, name, NewEntry(clock'))
         /\ metadataFile' = SaveMetadata(metadata')
         /\ last' = Returned("add", name, <<>>)
         /\ given' = [given EXCEPT ![name] = Some(content)]
         /\ savesSinceAdd' = [savesSinceAdd EXCEPT ![name] = Some(0)]
         /\ removedSince' = removedSince \ {name}
         /\ UNCHANGED <<resultFiles, lastSaved>>

---------------------------------------------------------------------------
(* edit_script                                                             *)

\* not script_path.exists() in edit_script
EditNotFound(name) == scriptFiles[name] = NoFile

EditScript(name, content) ==
    IF ~ValidateScriptName(name) THEN Rejects("edit", name, "ValidationError")
    ELSE IF EditNotFound(name) THEN Rejects("edit", name, "NotFound")
    ELSE /\ clock < MaxClock
         /\ clock' = clock + 1
         /\ scriptFiles' = [scriptFiles EXCEPT ![name] = File(WriteText(content))]
         /\ IF HasKey(metadata, name)
            THEN /\ metadata' =
                        DictSet(metadata, name,
                                [Lookup(metadata, name)
                                    EXCEPT !.last_modified = clock'])
                 /\ metadataFile' = SaveMetadata(metadata')
                 /\ last' = Returned("edit", name, <<>>)
                 /\ given' = [given EXCEPT ![name] = Some(content)]
            ELSE \* self.metadata[name] raises after the body was written
                 /\ last' = Raised("edit", name, "KeyError")
                 /\ UNCHANGED <<metadata, metadataFile, given>>
         /\ UNCHANGED <<resultFiles, lastSaved, savesSinceAdd, removedSince>>

---------------------------------------------------------------------------
(* get_script                                                              *)

\* not script_path.exists() in get_script
GetNotFound(name) == scriptFiles[name] = NoFile

\* What get_script reports in the current state.
GetScriptResult(name) ==
    IF ~ValidateScriptName(name) THEN Raised("get", name, "ValidationError")
    ELSE IF GetNotFound(name) THEN Raised("get", name, "NotFound")
    ELSE Returned("get", name, ReadText(Content(scriptFiles[name])))

GetScript(name) ==
    /\ last' = GetScriptResult(name)
    /\ UNCHANGED <<repo, clock, history>>

---------------------------------------------------------------------------
(* remove_script                                                           *)

\* A changed remove_script: it tests the result path, not the script path.
RemoveNotFoundByResult(name) == resultFiles[name] = NoFile

\* not script_path.exists() in remove_script
RemoveNotFound(name) == scriptFiles[name] = NoFile

\* A changed remove_script: the result file is left behind.
RemoveResultKept(files, name) == files

\* if result_path.exists(): result_path.unlink()
RemoveResult(files, name) == [files EXCEPT ![name] = NoFile]

\* A changed remove_script: the entry is left in the index.
RemoveMetadataKept(md, name) == md

\* if name in self.metadata: del self.metadata[name]
RemoveMetadata(md, name) == IF HasKey(md, name) THEN DictDel(md, name) ELSE md

RemoveScript(name) ==
    IF ~ValidateScriptName(name) THEN Rejects("remove", name, "ValidationError")
    ELSE IF RemoveNotFound(name) THEN Rejects("remove", name, "NotFound")
    ELSE /\ scriptFiles' = [scriptFiles EXCEPT ![name] = NoFile]
         /\ resultFiles' = RemoveResult(resultFiles, name)
         /\ metadata' = RemoveMetadata(metadata, name)
         /\ metadataFile' = IF HasKey(metadata, name)
                            THEN SaveMetadata(metadata')
                            ELSE metadataFile
         /\ last' = Returned("remove", name, <<>>)
         /\ given' = [given EXCEPT ![name] = None]
         /\ lastSaved' = [lastSaved EXCEPT ![name] = None]
         /\ savesSinceAdd' = [savesSinceAdd EXCEPT ![name] = None]
         /\ removedSince' = removedSince \cup {name}
         /\ UNCHANGED clock

---------------------------------------------------------------------------
(* save_result                                                             *)

\* A changed save_result: the count restarts from the default each time.
ExecutionCountFromDefault(entry) == 0 + 1

\* self.metadata[name].get("execution_count", 0) + 1
ExecutionCountAfter(entry) == entry.execution_count + 1

\* A changed save_result: without an entry of the name, it makes one.
SaveResultMetadataUpsert(md, name, now) ==
    DictSet(md, name,
            IF HasKey(md, name)
            THEN [Lookup(md, name) EXCEPT
                     !.last_executed = Some(now),
                     !.execution_count = @ + 1]
            ELSE [created |-> now, last_modified |-> now,
                  last_executed |-> Some(now), execution_count |-> 1])

\* The index after save_result: an entry of the name is updated, and
\* without one the index is left as it is.
SaveResultMetadata(md, name, now) ==
    IF HasKey(md, name)
    THEN DictSet(md, name,
                 [Lookup(md, name) EXCEPT
                     !.last_executed = Some(now),
                     !.execution_count = ExecutionCountAfter(Lookup(md, name))])
    ELSE md

\* A changed save_result: the name is used as it comes.
SaveResultUnvalidated(name) == TRUE

\* name = self._validate_script_name(name) in save_result
SaveResultValidates(name) == ValidateScriptName(name)

SaveResult(name, result) ==
    IF ~SaveResultValidates(name)
    THEN Rejects("save_result", name, "ValidationError")
    ELSE \* (the call counter stays within the bound of the model)
         /\ savesSinceAdd[name] # None => savesSinceAdd[name][1] < MaxClock
         /\ resultFiles' = [resultFiles EXCEPT ![name] = File(WriteText(result))]
         /\ metadata' = SaveResultMetadata(metadata, name, clock + 1)
         /\ IF HasKey(metadata, name)
            THEN /\ clock < MaxClock
                 /\ clock' = clock + 1
                 /\ metadataFile' = SaveMetadata(metadata')
            ELSE UNCHANGED <<clock, metadataFile>>
         /\ last' = Returned("save_result", name, <<>>)
         /\ lastSaved' = [lastSaved EXCEPT ![name] = Some(result)]
         /\ savesSinceAdd' =
                [savesSinceAdd EXCEPT ![name] =
                    IF @ = None THEN None ELSE Some(@[1] + 1)]
         /\ UNCHANGED <<scriptFiles, given, removedSince>>

---------------------------------------------------------------------------
(* get_result                                                              *)

\* What get_result reports in the current state.
GetResultResult(name) ==
    IF ~ValidateScriptName(name)
    THEN Raised("get_result", name, "ValidationError")
    ELSE IF resultFiles[name] = NoFile
    THEN Returned("get_result", name, SoftMiss(name))
    ELSE Returned("get_result", name, ReadText(Content(resultFiles[name])))

GetResult(name) ==
    /\ last' = GetResultResult(name)
    /\ UNCHANGED <<repo, clock, history>>

---------------------------------------------------------------------------
(* One serial caller of the repository, from an empty directory.           *)

Next ==
    \/ ListScripts /\ UNCHANGED <<harness, reply>>
    \/ \E name \in Names, content \in Texts : AddScript(name, content)
                /\ UNCHANGED <<harness, reply>>
    \/ \E name \in Names, content \in Texts : EditScript(name, content)
                /\ UNCHANGED <<harness, reply>>
    \/ \E name \in Names : GetScript(name) /\ UNCHANGED <<harness, reply>>
    \/ \E name \in Names : RemoveScript(name) /\ UNCHANGED <<harness, reply>>
    \/ \E name \in Names, result \in Texts : SaveResult(name, result)
                /\ UNCHANGED <<harness, reply>>
    \/ \E name \in Names : GetResult(name) /\ UNCHANGED <<harness, reply>>

Spec == Init /\ [][Next]_vars

---------------------------------------------------------------------------
(* The server process stops and a new one starts on the same directory;    *)
(* in between, the metadata document may have been damaged.                *)

\* A changed _init_metadata: the new instance starts from an empty index.
InitMetadataFresh(doc) == <<>>

\* _init_metadata: the index a new ScriptManager holds, given the document.
InitMetadata(doc) ==
    IF doc.kind = "absent" THEN <<>>
    ELSE IF doc.kind = "mapping" THEN doc.entries
    ELSE <<>>   \* json.JSONDecodeError

\* _init_metadata: the document it leaves on disk.
InitMetadataFile(doc) ==
    IF doc.kind = "mapping" THEN doc ELSE SaveMetadata(<<>>)

\* What a damaged metadata.json holds: text that is not JSON, or bytes
\* that are not text in the reader's encoding.
DamagedKinds == {"garbage", "undecodable"}

\* metadata.json is overwritten with something that is not the index.
CorruptMetadataFile ==
    /\ metadataFile.kind = "mapping"
    /\ \E kind \in DamagedKinds :
            metadataFile' = [kind |-> kind, entries |-> <<>>]
    /\ UNCHANGED <<scriptFiles, resultFiles, metadata, clock, last, history>>

\* _init_metadata: json.load raises something the except clause
\* (json.JSONDecodeError alone) does not catch.
InitRaises(doc) == doc.kind = "undecodable"

\* ScriptManager.__init__ of the new process.  When it raises there is no
\* manager object, and the document is left as it was.
Restart ==
    IF InitRaises(metadataFile)
    THEN /\ metadata' = <<>>
         /\ last' = Raised("init", <<>>, "UnicodeDecodeError")
         /\ UNCHANGED <<scriptFiles, resultFiles, metadataFile, clock, history>>
    ELSE /\ metadata' = InitMetadata(metadataFile)
         /\ metadataFile' = InitMetadataFile(metadataFile)
         /\ last' = Returned("init", <<>>, <<>>)
         /\ UNCHANGED <<scriptFiles, resultFiles, clock, history>>

\* A manager object exists: the last __init__ did not raise.
Running == ~(last.op = "init" /\ last.outcome # "ok")

\* The names the caller uses around a restart.
RestartNames == { <<"a">>, <<"a", "/">> }

NextRestart ==
    \/ Running /\ ListScripts /\ UNCHANGED <<harness, reply>>
    \/ \E name \in RestartNames, content \in Texts :
            Running /\ AddScript(name, content)
                /\ UNCHANGED <<harness, reply>>
    \/ \E name \in RestartNames, content \in Texts :
            Running /\ EditScript(name, content)
                /\ UNCHANGED <<harness, reply>>
    \/ \E name \in RestartNames : Running /\ GetScript(name)
                /\ UNCHANGED <<harness, reply>>
    \/ \E name \in RestartNames : Running /\ RemoveScript(name)
                /\ UNCHANGED <<harness, reply>>
    \/ \E name \in RestartNames, result \in Texts :
            Running /\ SaveResult(name, result)
                /\ UNCHANGED <<harness, reply>>
    \/ \E name \in RestartNames : Running /\ GetResult(name)
                /\ UNCHANGED <<harness, reply>>
    \/ CorruptMetadataFile /\ UNCHANGED <<harness, reply>>
    \/ Restart /\ UNCHANGED <<harness, reply>>

SpecRestart == Init /\ [][NextRestart]_vars

---------------------------------------------------------------------------
(* The server process stops between two calls and a new one starts on the  *)
(* same directory, which nothing else has touched.                         *)

NextDurable ==
    \/ ListScripts /\ UNCHANGED <<harness, reply>>
    \/ \E name \in Names, content \in Texts :
            AddScript(name, content) /\ UNCHANGED <<harness, reply>>
    \/ \E name \in Names, content \in Texts :
            EditScript(name, content) /\ UNCHANGED <<harness, reply>>
    \/ \E name \in Names : GetScript(name) /\ UNCHANGED <<harness, reply>>
    \/ \E name \in Names : RemoveScript(name) /\ UNCHANGED <<harness, reply>>
    \/ \E name \in Names, result \in Texts :
            SaveResult(name, result) /\ UNCHANGED <<harness, reply>>
    \/ \E name \in Names : GetResult(name) /\ UNCHANGED <<harness, reply>>
    \/ Restart /\ UNCHANGED <<harness, reply>>

SpecDurable == Init /\ [][NextDurable]_vars

---------------------------------------------------------------------------
(* One serial caller that tries the validator with the wider set of names. *)

NextNames ==
    \/ ListScripts /\ UNCHANGED <<harness, reply>>
    \/ \E name \in ValidatorNames, content \in Texts : AddScript(name, content)
                /\ UNCHANGED <<harness, reply>>
    \/ \E name \in ValidatorNames, content \in Texts : EditScript(name, content)
                /\ UNCHANGED <<harness, reply>>
    \/ \E name \in ValidatorNames : GetScript(name)
                /\ UNCHANGED <<harness, reply>>
    \/ \E name \in ValidatorNames : RemoveScript(name)
                /\ UNCHANGED <<harness, reply>>
    \/ \E name \in ValidatorNames, result \in Texts : SaveResult(name, result)
                /\ UNCHANGED <<harness, reply>>
    \/ \E name \in ValidatorNames : GetResult(name)
                /\ UNCHANGED <<harness, reply>>

SpecNames == Init /\ [][NextNames]_vars

---------------------------------------------------------------------------
(* BlenderExecutor.execute: inputs and the texts it builds.                *)

\* Names a caller of execute passes; the harness validates none.
HarnessNames == { <<"a">>, <<"a", "/">> }

\* The blend_file argument: not passed, the empty string, the path of a
\* file on disk, the path of no file.
BlendFiles == { None, Some(<<>>), Some(<<"s">>), Some(<<"m">>) }

\* os.path.exists(blend_file)
ExistingPaths == { <<"s">> }

\* `if blend_file:` -- None and the empty string are both false.
Truthy(blend) == blend # None /\ blend[1] # <<>>

\* self.temp_dir / f"{script_name}.py"
EnvelopePath(name) == <<"<temp_dir>/">> \o name \o <<".py">>

\* open(script_file, "w") finds the directory of the path: temp_dir
\* itself exists (_setup), a directory named inside script_name does not.
CanWriteEnvelope(name) == \A i \in 1..Len(name) : name[i] # "/"

Indent == <<" ", " ", " ", " ">>

\* script_content.replace('\n', '\n    ')
RECURSIVE IndentBody(_)
IndentBody(t) ==
    IF t = <<>> THEN <<>>
    ELSE IF Head(t) = "\n" THEN <<"\n">> \o Indent \o IndentBody(Tail(t))
    ELSE <<Head(t)>> \o IndentBody(Tail(t))

\* self.temp_dir / f"{script_name}.out"
OutputPath(name) == <<"<temp_dir>/">> \o name \o <<".out">>

\* A changed envelope: every execution writes to one output file.
EnvelopeOneOutput(name, content) ==
    [body |-> IndentBody(content), output |-> <<"a">>]

\* wrapped_script: the guarded region's body and the output path embedded.
Envelope(name, content) == [body |-> IndentBody(content), output |-> name]

\* cmd, each argument a text.
Cmd(blend, name) ==
    << <<"blender">>, <<"--background">> >>
        \o (IF Truthy(blend) THEN << <<"--file">>, blend[1] >> ELSE <<>>)
        \o << <<"--python">>, EnvelopePath(name) >>

\* f"Error: Blend file not found: {blend_file}"
BlendNotFound(blend) == <<"Error: Blend file not found: ">> \o blend[1]

\* self.timeout, as the message shows it
TimeoutSeconds == <<"60">>

\* f"Script execution timed out after {self.timeout} seconds"
TimedOut ==
    <<"Script execution timed out after ">> \o TimeoutSeconds \o <<" seconds">>

\* f"Error executing script: {str(e)}"
ErrorExecuting(msg) == <<"Error executing script: ">> \o msg

\* str(e) of the OSError of open(script_file, "w")
WriteError(name) ==
    <<"[Errno 2] No such file or directory: '">> \o EnvelopePath(name) \o <<"'">>

\* str(e) of the exception of subprocess.run that is not a timeout
LaunchError == <<"[Errno 2] No such file or directory: 'blender'">>

NoOutput == <<"No output captured from script.">>

\* Script bodies a caller of execute passes: one line, and bodies that
\* start with a line break.
HarnessTexts == { <<"x">>, <<"\n", "x">>, <<"\n", "x", "\n", "y">> }

\* The lines of a text, split at "\n".
RECURSIVE SplitLines(_)
SplitLines(t) ==
    IF \A i \in 1..Len(t) : t[i] # "\n" THEN <<t>>
    ELSE LET k == CHOOSE i \in 1..Len(t) :
                        t[i] = "\n" /\ \A j \in 1..(i - 1) : t[j] # "\n"
         IN  <<SubSeq(t, 1, k - 1)>> \o SplitLines(SubSeq(t, k + 1, Len(t)))

\* A line of blanks only.
Blank(line) == \A i \in 1..Len(line) : line[i] = " "

\* The host's interpreter accepts the envelope: below `try:` every line
\* that is not blank is indented (the body passed is itself well-formed,
\* with its outermost statements at the left margin).
WellFormed(envelope) ==
    \A i \in 1..Len(SplitLines(envelope.body)) :
        LET line == SplitLines(envelope.body)[i]
        IN  Blank(line) \/ (Len(line) > Len(Indent)
                                /\ SubSeq(line, 1, Len(Indent)) = Indent)

\* What the run of the body does under the envelope: what it printed on
\* each channel, and the error it raised, if any.
Captures ==
    { [stdout |-> <<"h", "i", "\n">>, stderr |-> <<>>, error |-> None],
      [stdout |-> <<"x", "\r", "y", "\n">>, stderr |-> <<>>, error |-> None],
      [stdout |-> <<"o", "\n">>, stderr |-> <<"w", "\n">>,
       error |-> Some(<<"boom">>)] }

\* traceback.print_exc(), on sys.stderr
Traceback(error) ==
    <<"Traceback (most recent call last):", "\n", "ValueError: ">>
        \o error \o <<"\n">>

\* stdout_buffer at the finally: what the body printed, then the line of
\* `print(f"Error executing script: {e}")` of the except branch.
StdoutBuffer(c) ==
    IF c.error = None THEN c.stdout
    ELSE c.stdout \o <<"Error executing script: ">> \o c.error[1] \o <<"\n">>

\* stderr_buffer at the finally: what the body wrote, then the traceback.
StderrBuffer(c) ==
    IF c.error = None THEN c.stderr
    ELSE c.stderr \o Traceback(c.error[1])

\* The envelope's finally: stdout buffer, "\n\n", stderr buffer.
OutputFileText(c) == StdoutBuffer(c) \o <<"\n", "\n">> \o StderrBuffer(c)

\* What the host process itself printed, and how it exited.
HostStdouts == { <<>>, <<"o">> }
HostStderrs == { <<"e">> }
ExitCodes == {0, 1}

\* if process.returncode != 0
DiagnosticsWanted(code) == code # 0

\* "\n\nBlender process output:\n" "STDOUT: ...\n" "STDERR: ..."
Diagnostics(out, err) ==
    <<"\n", "\n", "Blender process output:", "\n", "STDOUT: ">> \o out
        \o <<"\n", "STDERR: ">> \o err

\* A changed collection: the output file is never read.
ScriptOutputUnread(file) == NoOutput

\* script_output before the diagnostics: the output file read in text
\* mode, or the substitute.
ScriptOutput(file) ==
    IF file # NoFile THEN ReadText(Content(file)) ELSE NoOutput

\* The text execute returns once the process has exited.
CollectResult(file, host) ==
    IF DiagnosticsWanted(host.code)
    THEN ScriptOutput(file) \o Diagnostics(host.stdout, host.stderr)
    ELSE ScriptOutput(file)

---------------------------------------------------------------------------
(* BlenderExecutor.execute, step by step.  The host process runs beside    *)
(* the call that launched it.                                              *)

\* The call is not in progress: never made, returned, or left by a raise.
Closed(e) == execs[e].pc \in {"idle", "returned", "raised"}

\* Another execution of the name is in progress.
Overlaps(e, name) ==
    \E o \in ExecIds \ {e} : ~Closed(o) /\ execs[o].name = name

\* execute(script_name, script_content, blend_file) is entered.  (Each
\* execution remembers whether another one of its name ran beside it.)
ExecCall(e, name, content, blend) ==
    /\ Closed(e)
    /\ execs' = [o \in ExecIds |->
                    IF o = e
                    THEN [Idle EXCEPT !.pc = "write", !.name = name,
                                      !.content = content, !.blend = blend,
                                      !.overlapped = Overlaps(e, name)]
                    ELSE IF ~Closed(o) /\ execs[o].name = name
                    THEN [execs[o] EXCEPT !.overlapped = TRUE]
                    ELSE execs[o]]
    /\ hosts' = [hosts EXCEPT ![e] = NoHost]
    /\ UNCHANGED scratch

\* with open(script_file, "w") ... raises: no handler is around it.
WriteFailure(e) ==
    execs' = [execs EXCEPT ![e].pc = "raised",
                           ![e].ret = WriteError(execs[e].name)]

\* Lines 69-101: the envelope is written, or the write fails (no such
\* directory, or whatever else the file system refuses).
ExecWriteEnvelope(e) ==
    /\ execs[e].pc = "write"
    /\ \/ /\ CanWriteEnvelope(execs[e].name)
          /\ envelopeFiles' =
                [envelopeFiles EXCEPT ![execs[e].name] =
                    File(Envelope(execs[e].name, execs[e].content))]
          /\ execs' = [execs EXCEPT ![e].pc = "launch"]
       \/ /\ WriteFailure(e)
          /\ UNCHANGED envelopeFiles
    /\ UNCHANGED <<outputFiles, hosts>>

\* if blend_file: if os.path.exists(blend_file): ... else: return
BlendMissing(blend) == Truthy(blend) /\ blend[1] \notin ExistingPaths

\* Lines 105-126: the command is built and subprocess.run starts the host,
\* unless the blend file is missing or the launch raises.
ExecLaunch(e) ==
    /\ execs[e].pc = "launch"
    /\ IF BlendMissing(execs[e].blend)
       THEN /\ execs' = [execs EXCEPT ![e].pc = "cleanup",
                                      ![e].ret = BlendNotFound(execs[e].blend)]
            /\ UNCHANGED hosts
       ELSE \/ /\ hosts' = [hosts EXCEPT ![e] =
                    [NoHost EXCEPT !.state = "running",
                                   !.cmd = Cmd(execs[e].blend, execs[e].name),
                                   !.launches = hosts[e].launches + 1]]
               /\ execs' = [execs EXCEPT ![e].pc = "wait"]
            \/ /\ execs' = [execs EXCEPT ![e].pc = "cleanup",
                                         ![e].ret = ErrorExecuting(LaunchError)]
               /\ UNCHANGED hosts
    /\ UNCHANGED scratch

\* The host runs the file of its --python argument, as it finds it then:
\* a well-formed envelope runs to its finally block, which writes the
\* output file named in it.
HostWritesOutput(e) ==
    /\ hosts[e].state = "running"
    /\ ~hosts[e].wrote
    /\ envelopeFiles[execs[e].name] # NoFile
    /\ WellFormed(Content(envelopeFiles[execs[e].name]))
    /\ \E c \in Captures :
            /\ outputFiles' =
                    [outputFiles EXCEPT
                        ![Content(envelopeFiles[execs[e].name]).output] =
                            File(WriteText(OutputFileText(c)))]
            /\ hosts' = [hosts EXCEPT ![e].wrote = TRUE,
                                      ![e].capture = Some(c)]
    /\ UNCHANGED <<envelopeFiles, execs>>

\* The host process ends by itself.
HostExits(e) ==
    /\ hosts[e].state = "running"
    /\ \E code \in ExitCodes, out \in HostStdouts, err \in HostStderrs :
            hosts' = [hosts EXCEPT ![e].state = "exited", ![e].code = code,
                                   ![e].stdout = out, ![e].stderr = err]
    /\ UNCHANGED <<scratch, execs>>

\* A changed timeout: the call gives up and leaves the child alone.
HostLeftRunning == "running"

\* What subprocess.run does to the child before it raises TimeoutExpired.
HostAfterTimeout == "killed"

\* subprocess.run(timeout=...): the time is up, the child is killed and
\* TimeoutExpired is raised and caught (lines 143-144).
ExecTimeout(e) ==
    /\ execs[e].pc = "wait"
    /\ hosts[e].state = "running"
    /\ hosts' = [hosts EXCEPT ![e].state = HostAfterTimeout]
    /\ execs' = [execs EXCEPT ![e].pc = "cleanup", ![e].ret = TimedOut]
    /\ UNCHANGED scratch

\* Lines 128-141: the process has exited; the text to return is built.
ExecCollect(e) ==
    /\ execs[e].pc = "wait"
    /\ hosts[e].state = "exited"
    /\ execs' = [execs EXCEPT
                    ![e].pc = "cleanup",
                    ![e].ret = CollectResult(outputFiles[execs[e].name],
                                             hosts[e])]
    /\ UNCHANGED <<scratch, hosts>>

\* A changed cleanup: the output file is left behind.
CleanupOutputKept(files, name) == files

\* if output_file.exists(): output_file.unlink()
CleanupOutput(files, name) == [files EXCEPT ![name] = NoFile]

\* Lines 147-155, then the return: both scratch files are deleted; when an
\* unlink raises, the rest of the deletions is skipped and a warning logged.
ExecCleanup(e) ==
    /\ execs[e].pc = "cleanup"
    /\ \/ /\ envelopeFiles' = [envelopeFiles EXCEPT ![execs[e].name] = NoFile]
          /\ outputFiles' = CleanupOutput(outputFiles, execs[e].name)
          /\ execs' = [execs EXCEPT ![e].pc = "returned"]
       \/ /\ envelopeFiles[execs[e].name] # NoFile
          /\ UNCHANGED scratch
          /\ execs' = [execs EXCEPT ![e].pc = "returned", ![e].logged = TRUE]
       \/ /\ outputFiles[execs[e].name] # NoFile
          /\ envelopeFiles' = [envelopeFiles EXCEPT ![execs[e].name] = NoFile]
          /\ UNCHANGED outputFiles
          /\ execs' = [execs EXCEPT ![e].pc = "returned", ![e].logged = TRUE]
    /\ UNCHANGED hosts

---------------------------------------------------------------------------
(* One caller of the harness alone, one execution at a time.               *)

manager == <<repo, clock, last, history>>

SerialIds == {"e1"}

NextHarness ==
    \/ \E e \in SerialIds, name \in HarnessNames,
          content \in HarnessTexts, blend \in BlendFiles :
            ExecCall(e, name, content, blend) /\ UNCHANGED <<manager, reply>>
    \/ \E e \in SerialIds : ExecWriteEnvelope(e) /\ UNCHANGED <<manager, reply>>
    \/ \E e \in SerialIds : ExecLaunch(e) /\ UNCHANGED <<manager, reply>>
    \/ \E e \in SerialIds : HostWritesOutput(e) /\ UNCHANGED <<manager, reply>>
    \/ \E e \in SerialIds : HostExits(e) /\ UNCHANGED <<manager, reply>>
    \/ \E e \in SerialIds : ExecTimeout(e) /\ UNCHANGED <<manager, reply>>
    \/ \E e \in SerialIds : ExecCollect(e) /\ UNCHANGED <<manager, reply>>
    \/ \E e \in SerialIds : ExecCleanup(e) /\ UNCHANGED <<manager, reply>>

SpecHarness == Init /\ [][NextHarness]_vars

---------------------------------------------------------------------------
(* Several callers of the harness: executions in progress side by side.    *)

ConcurrentNames == { <<"a">>, <<"Z", "-", "9", "_">> }

\* The script each caller executes, again and again.
CallerName == [e \in ExecIds |-> IF e = "e1" THEN <<"a">>
                                              ELSE <<"Z", "-", "9", "_">>]
ConcurrentTexts == { <<"\n", "x">> }
ConcurrentBlendFiles == { None }

\* No other execution in progress has this name.
NameFree(e, name) ==
    \A o \in ExecIds \ {e} : Closed(o) \/ execs[o].name # name

\* The steps of the executions under way and of their hosts.
ExecStep(e) ==
    \/ ExecWriteEnvelope(e)
    \/ ExecLaunch(e)
    \/ HostWritesOutput(e)
    \/ HostExits(e)
    \/ ExecTimeout(e)
    \/ ExecCollect(e)
    \/ ExecCleanup(e)

\* Executions of different names overlap; those of one name do not.
NextConcurrent ==
    \/ \E e \in ExecIds,
          content \in ConcurrentTexts, blend \in ConcurrentBlendFiles :
            /\ NameFree(e, CallerName[e])
            /\ ExecCall(e, CallerName[e], content, blend)
            /\ UNCHANGED <<manager, reply>>
    \/ \E e \in ExecIds : ExecStep(e) /\ UNCHANGED <<manager, reply>>

SpecConcurrent == Init /\ [][NextConcurrent]_vars

\* Two callers execute the same script, with nothing between them.
NextOverlap ==
    \/ \E e \in ExecIds,
          content \in ConcurrentTexts, blend \in ConcurrentBlendFiles :
            /\ ExecCall(e, <<"a">>, content, blend)
            /\ UNCHANGED <<manager, reply>>
    \/ \E e \in ExecIds : ExecStep(e) /\ UNCHANGED <<manager, reply>>

SpecOverlap == Init /\ [][NextOverlap]_vars

---------------------------------------------------------------------------
(* The tools of the facade (src/server.py).                                *)

\* str(e) of what the repository raised.
ExceptionText(kind, name) ==
    IF kind = "ValidationError"
    THEN <<"Script name can only contain letters, numbers, underscores, and hyphens">>
    ELSE IF kind = "AlreadyExists"
    THEN <<"Script '">> \o name \o <<"' already exists">>
    ELSE IF kind = "NotFound"
    THEN <<"Script '">> \o name \o <<"' not found">>
    ELSE <<"'">> \o name \o <<"'">>   \* KeyError(name)

\* What a tool gives back after its call of the repository ended as `done`.
ToolReply(tool, name, done, success, failure) ==
    IF done.outcome = "ok"
    THEN Returned(tool, name, <<"Script '">> \o name \o success)
    ELSE Returned(tool, name, failure \o ExceptionText(done.outcome, name))

\* @mcp.tool() add_script
FacadeAdd(name, content) ==
    /\ AddScript(name, content)
    /\ reply' = ToolReply("add_script", name, last',
                          <<"' added successfully">>, <<"Error adding script: ">>)
    /\ UNCHANGED harness

\* @mcp.tool() edit_script
FacadeEdit(name, content) ==
    /\ EditScript(name, content)
    /\ reply' = ToolReply("edit_script", name, last',
                          <<"' updated successfully">>, <<"Error updating script: ">>)
    /\ UNCHANGED harness

\* @mcp.tool() remove_script
FacadeRemove(name) ==
    /\ RemoveScript(name)
    /\ reply' = ToolReply("remove_script", name, last',
                          <<"' removed successfully">>, <<"Error removing script: ">>)
    /\ UNCHANGED harness

\* error_msg = f"Error executing script: {str(e)}"
ExecuteError(msg) == <<"Error executing script: ">> \o msg

\* A changed status text, without the place of the result.
ExecutedTextPlain(name) ==
    <<"Script '">> \o name \o <<"' executed successfully.">>

\* f"Script '{name}' executed successfully. Use 'result://{name}' ..."
ExecutedText(name) ==
    <<"Script '">> \o name \o <<"' executed successfully. Use '">>
        \o <<"result://">> \o name \o <<"' to see the output.">>

\* (the clock and the call counter stay within the bound of the model
\* until the call has saved its result)
WithinBound(name) ==
    /\ clock < MaxClock
    /\ savesSinceAdd[name] # None => savesSinceAdd[name][1] < MaxClock

\* execute_script, lines 64-66: get_script, then execute is entered; when
\* get_script raises, the except branch is entered with its message.
FacadeExecute(e, name, blend) ==
    /\ Closed(e)
    /\ WithinBound(name)
    /\ GetScript(name)
    /\ execs' = [execs EXCEPT ![e] =
            IF last'.outcome = "ok"
            THEN [Idle EXCEPT !.pc = "write", !.name = name,
                              !.content = last'.ret, !.blend = blend,
                              !.facade = TRUE]
            ELSE [Idle EXCEPT !.pc = "handler", !.name = name,
                              !.ret = ExecuteError(
                                        ExceptionText(last'.outcome, name)),
                              !.facade = TRUE]]
    /\ hosts' = [hosts EXCEPT ![e] = NoHost]
    /\ UNCHANGED <<scratch, reply>>

\* Lines 68-70: execute has returned; save_result, then the status text.
FacadeSaveResult(e) ==
    /\ execs[e].facade
    /\ execs[e].pc = "returned"
    /\ SaveResult(execs[e].name, execs[e].ret)
    /\ IF last'.outcome = "ok"
       THEN /\ reply' = Returned("execute_script", execs[e].name,
                                 ExecutedText(execs[e].name))
            /\ execs' = [execs EXCEPT ![e] = Idle]
       ELSE /\ execs' = [execs EXCEPT
                    ![e].pc = "handler",
                    ![e].ret = ExecuteError(
                                ExceptionText(last'.outcome, execs[e].name))]
            /\ UNCHANGED reply
    /\ UNCHANGED <<scratch, hosts>>

\* Lines 71-74, the except branch: save_result(name, error_msg), then
\* return error_msg; what save_result raises there leaves the tool.
FacadeHandler(e) ==
    /\ execs[e].facade
    /\ execs[e].pc \in {"handler", "raised"}
    /\ LET error_msg == IF execs[e].pc = "raised"
                        THEN ExecuteError(execs[e].ret)
                        ELSE execs[e].ret
       IN  /\ SaveResult(execs[e].name, error_msg)
           /\ reply' = IF last'.outcome = "ok"
                       THEN Returned("execute_script", execs[e].name, error_msg)
                       ELSE Raised("execute_script", execs[e].name,
                                   last'.outcome)
    /\ execs' = [execs EXCEPT ![e] = Idle]
    /\ UNCHANGED <<scratch, hosts>>

\* Names and bodies the caller of the tools uses.
FacadeNames == { <<"a">>, <<"a", "/">> }
FacadeTexts == { <<"x">>, <<"\n", "x">> }
FacadeBlendFiles == BlendFiles

\* No call of a tool is in progress.
FacadeIdle == \A e \in ExecIds : execs[e].pc = "idle"

NextFacade ==
    \/ \E name \in FacadeNames, content \in FacadeTexts :
            FacadeIdle /\ FacadeAdd(name, content)
    \/ \E name \in FacadeNames, content \in FacadeTexts :
            FacadeIdle /\ FacadeEdit(name, content)
    \/ \E name \in FacadeNames : FacadeIdle /\ FacadeRemove(name)
    \/ \E e \in SerialIds, name \in FacadeNames, blend \in FacadeBlendFiles :
            FacadeIdle /\ FacadeExecute(e, name, blend)
    \/ \E e \in SerialIds : ExecWriteEnvelope(e) /\ UNCHANGED <<manager, reply>>
    \/ \E e \in SerialIds : ExecLaunch(e) /\ UNCHANGED <<manager, reply>>
    \/ \E e \in SerialIds : HostWritesOutput(e) /\ UNCHANGED <<manager, reply>>
    \/ \E e \in SerialIds : HostExits(e) /\ UNCHANGED <<manager, reply>>
    \/ \E e \in SerialIds : ExecTimeout(e) /\ UNCHANGED <<manager, reply>>
    \/ \E e \in SerialIds : ExecCollect(e) /\ UNCHANGED <<manager, reply>>
    \/ \E e \in SerialIds : ExecCleanup(e) /\ UNCHANGED <<manager, reply>>
    \/ \E e \in SerialIds : FacadeSaveResult(e)
    \/ \E e \in SerialIds : FacadeHandler(e)

SpecFacade == Init /\ [][NextFacade]_vars

---------------------------------------------------------------------------
(* Terms of the properties.                                                *)

\* The grammar of a name: non-empty; letters, digits, underscore, hyphen.
NameGrammar(name) ==
    /\ Len(name) >= 1
    /\ \A i \in 1..Len(name) : NameChar(name[i])

\* list() holds an entry for the name.
Listed(name) ==
    \E i \in 1..Len(metadata) : ListScriptsResult(metadata)[i].name = name

\* The name has a content unit / a metadata entry.
HasContent(name) == scriptFiles[name] # NoFile

HasEntry(name) == HasKey(metadata, name)

\* The step completes a call of operation op for the name.
Called(op, name) == last'.op = op /\ last'.name = name

---------------------------------------------------------------------------
\* C1: under one serial caller starting from an empty repository, after
\* every completed call (valid or invalid arguments, succeeding or failing)
\* a name has a content unit if and only if the index has an entry for it.
C1_ExistenceAgreement ==
    \A n \in Names : HasContent(n) <=> HasEntry(n)

\* One script is stored, another was removed, and the last call failed.
C1_Witness ==
    \E n, m \in Names :
        /\ HasContent(n) /\ HasEntry(n)
        /\ m \in removedSince /\ ~HasContent(m) /\ ~HasEntry(m)
        /\ last.outcome = "NotFound"

\* C2: add(name, content) on a valid name that is not present succeeds and
\* a following get(name) returns exactly that content; after a successful
\* edit(name, c2), get(name) returns exactly c2.
C2_RoundTrip ==
    [][\A n \in Names, c \in Texts :
        /\ (Called("add", n) /\ NameGrammar(n) /\ ~HasContent(n) /\ ~HasEntry(n)
            /\ AddScript(n, c))
              => /\ last'.outcome = "ok"
                 /\ GetScriptResult(n)' = Returned("get", n, c)
        /\ (Called("edit", n) /\ last'.outcome = "ok" /\ EditScript(n, c))
              => GetScriptResult(n)' = Returned("get", n, c)]_vars

\* C3: add on a name that exists fails with AlreadyExists and leaves the
\* content, the result, and the index (entries and order) unchanged.
C3_AddExistingRejected ==
    [][\A n \in Names, c \in Texts :
        (Called("add", n) /\ HasContent(n) /\ HasEntry(n) /\ AddScript(n, c))
            => /\ last' = Raised("add", n, "AlreadyExists")
               /\ UNCHANGED <<scriptFiles, resultFiles, metadata, metadataFile>>]_vars

\* An add was rejected for a stored script that has no result yet, with
\* two entries in the index.
C3_Witness ==
    /\ last.op = "add" /\ last.outcome = "AlreadyExists"
    /\ HasContent(last.name) /\ resultFiles[last.name] = NoFile
    /\ Len(metadata) = 2

\* C4: edit, get and remove of a valid name that has neither a content unit
\* nor an entry fail with NotFound and change none of the three stores.
C4_AbsentNotFound ==
    [][\A n \in Names :
        (last'.name = n /\ NameGrammar(n) /\ ~HasContent(n) /\ ~HasEntry(n))
            => /\ \A c \in Texts :
                    (Called("edit", n) /\ EditScript(n, c))
                        => /\ last' = Raised("edit", n, "NotFound")
                           /\ UNCHANGED repo
               /\ (Called("get", n) /\ GetScript(n))
                        => /\ last' = Raised("get", n, "NotFound")
                           /\ UNCHANGED repo
               /\ (Called("remove", n) /\ RemoveScript(n))
                        => /\ last' = Raised("remove", n, "NotFound")
                           /\ UNCHANGED repo]_vars

\* A remove failed for a name that has no script but has a stored result.
C4_Witness ==
    /\ last.op = "remove" /\ last.outcome = "NotFound"
    /\ ~HasContent(last.name) /\ ~HasEntry(last.name)
    /\ resultFiles[last.name] # NoFile

\* C5: edit of a name that has no entry in the index fails with NotFound,
\* also when a content unit of that name is on disk, and that content is
\* not overwritten.
C5_EditWithoutEntryNotFound ==
    [][\A n \in Names, c \in Texts :
        (Called("edit", n) /\ NameGrammar(n) /\ ~HasEntry(n) /\ EditScript(n, c))
            => /\ last' = Raised("edit", n, "NotFound")
               /\ scriptFiles' = scriptFiles]_vars

\* C6: remove of a name that has no entry in the index fails with NotFound,
\* also when a content unit of that name is on disk, and deletes nothing.
C6_RemoveWithoutEntryNotFound ==
    [][\A n \in Names :
        (Called("remove", n) /\ NameGrammar(n) /\ ~HasEntry(n) /\ RemoveScript(n))
            => /\ last' = Raised("remove", n, "NotFound")
               /\ UNCHANGED repo]_vars

\* C7: after a successful remove(name), until the next add(name, ...):
\* get(name) fails with NotFound, get_result(name) returns the soft-miss
\* message, and list() holds no entry for name.
C7_RemovedStaysGone ==
    \A n \in removedSince :
        /\ GetScriptResult(n) = Raised("get", n, "NotFound")
        /\ GetResultResult(n) = Returned("get_result", n, SoftMiss(n))
        /\ ~Listed(n)

\* C7, amended: after a successful remove(name), get(name) fails with
\* NotFound and list() holds no entry for name until the next add(name, ...),
\* and get_result(name) returns the soft-miss message until the next
\* save_result(name, ...), which stores a result also for a removed name.
C7_RemovedStaysGoneUntilSaved ==
    \A n \in removedSince :
        /\ GetScriptResult(n) = Raised("get", n, "NotFound")
        /\ ~Listed(n)
        /\ lastSaved[n] = None
              => GetResultResult(n) = Returned("get_result", n, SoftMiss(n))

\* A script that was added and executed has just been removed, and no
\* result was saved for it since.
C7_Witness ==
    \E n \in removedSince :
        /\ last = Returned("remove", n, <<>>)
        /\ lastSaved[n] = None
        /\ clock >= 2
        /\ metadata = <<>>

\* C8: with an entry for name, save_result(name, text) raises the entry's
\* execution_count by exactly 1, sets last_executed to the current time and
\* stores text as the result, whatever the text; execution_count equals the
\* number of save_result calls for the name since it was added.
C8_SaveResultCounts ==
    /\ [](\A n \in Names :
            HasEntry(n) =>
                savesSinceAdd[n] = Some(Lookup(metadata, n).execution_count))
    /\ [][\A n \in Names, t \in Texts :
            (Called("save_result", n) /\ HasEntry(n) /\ SaveResult(n, t))
                => /\ HasKey(metadata', n)
                   /\ Lookup(metadata', n).execution_count =
                          Lookup(metadata, n).execution_count + 1
                   /\ Lookup(metadata', n).last_executed = Some(clock')
                   /\ clock' = clock + 1
                   /\ resultFiles'[n] = File(t)
                   /\ last' = Returned("save_result", n, <<>>)]_vars

\* A second result was saved for a script: its count is 2.
C8_Witness ==
    /\ last.op = "save_result" /\ last.outcome = "ok"
    /\ HasEntry(last.name)
    /\ Lookup(metadata, last.name).execution_count = 2
    /\ Lookup(metadata, last.name).last_executed = Some(clock)

\* C9: save_result(name, text) for a valid name without an entry stores the
\* text as the result of name and leaves the index unchanged (no entry is
\* made, no other entry changes) and makes no content unit.
C9_SaveResultWithoutEntry ==
    [][\A n \in Names, t \in Texts :
        (Called("save_result", n) /\ NameGrammar(n) /\ ~HasEntry(n)
            /\ SaveResult(n, t))
            => /\ last' = Returned("save_result", n, <<>>)
               /\ resultFiles' = [resultFiles EXCEPT ![n] = File(t)]
               /\ UNCHANGED <<metadata, metadataFile, scriptFiles>>]_vars

\* A result was saved for a name without an entry while the index holds
\* an entry of another name.
C9_Witness ==
    /\ last.op = "save_result" /\ last.outcome = "ok"
    /\ ~HasEntry(last.name) /\ ~HasContent(last.name)
    /\ resultFiles[last.name] # NoFile
    /\ Len(metadata) = 1

\* C10: get_result(name) returns exactly the text of the most recent
\* save_result(name, ...) not followed by a remove(name), or the soft-miss
\* message if there is none, and changes nothing in the repository.
C10_LatestResult ==
    [][\A n \in Names :
        (Called("get_result", n) /\ NameGrammar(n) /\ GetResult(n))
            => /\ last' = Returned("get_result", n,
                                   IF lastSaved[n] = None
                                   THEN SoftMiss(n) ELSE lastSaved[n][1])
               /\ UNCHANGED repo]_vars

\* C11: every repository operation that takes a name validates it first:
\* with a name the validator rejects, add, edit, get, remove, save_result
\* and get_result fail with a validation error and the content store, the
\* result store and the index (in memory and on disk) are unchanged.
C11_RejectedNameTouchesNothing ==
    [][\A n \in Names :
        (last'.name = n /\ ~ValidateScriptName(n))
            => /\ \A c \in Texts :
                    /\ (Called("add", n) /\ AddScript(n, c))
                          => /\ last' = Raised("add", n, "ValidationError")
                             /\ UNCHANGED repo
                    /\ (Called("edit", n) /\ EditScript(n, c))
                          => /\ last' = Raised("edit", n, "ValidationError")
                             /\ UNCHANGED repo
                    /\ (Called("save_result", n) /\ SaveResult(n, c))
                          => /\ last' = Raised("save_result", n, "ValidationError")
                             /\ UNCHANGED repo
               /\ (Called("get", n) /\ GetScript(n))
                     => /\ last' = Raised("get", n, "ValidationError")
                        /\ UNCHANGED repo
               /\ (Called("remove", n) /\ RemoveScript(n))
                     => /\ last' = Raised("remove", n, "ValidationError")
                        /\ UNCHANGED repo
               /\ (Called("get_result", n) /\ GetResult(n))
                     => /\ last' = Raised("get_result", n, "ValidationError")
                        /\ UNCHANGED repo]_vars

\* save_result was rejected for a name with a path separator while a
\* script and a result are stored.
C11_Witness ==
    /\ last = Raised("save_result", <<"a", "/">>, "ValidationError")
    /\ \E n \in Names : HasContent(n) /\ resultFiles[n] # NoFile
    /\ \A n \in Names : ~ValidateScriptName(n) =>
            /\ ~HasContent(n) /\ ~HasEntry(n) /\ resultFiles[n] = NoFile

\* C12: the validator accepts a name if and only if it is non-empty and
\* every character is a letter, a digit, '_' or '-' (a name with a line
\* break is rejected), so every name under which a script, a result or an
\* index entry is stored satisfies that grammar.
C12_ValidatorIsTheGrammar ==
    /\ \A n \in ValidatorNames :
            (HasContent(n) \/ HasEntry(n) \/ resultFiles[n] # NoFile)
                => NameGrammar(n)
    /\ last.op \in {"add", "edit", "get", "remove", "save_result", "get_result"}
            => (last.outcome = "ValidationError" <=> ~NameGrammar(last.name))

\* C13: construction of the repository succeeds whatever the metadata
\* document holds: a document that cannot be read or is malformed is
\* replaced by an empty index, which is persisted, so after every
\* construction a manager exists and its index is the mapping on disk.
C13_InitAlwaysSucceeds ==
    [][Restart => /\ last' = Returned("init", <<>>, <<>>)
                  /\ metadataFile' = SaveMetadata(metadata')
                  /\ metadataFile.kind # "mapping" => metadata' = <<>>]_vars

---------------------------------------------------------------------------
(* The execution harness.                                                  *)

\* C14: execute returns a text and never raises, whatever fails: writing
\* the envelope, the external file, the launch, the timeout, the exit
\* code, the output file, the deletion of the scratch files.
C14_ExecuteNeverRaises ==
    \A e \in ExecIds : execs[e].pc # "raised"

\* The command line the host is to be launched with.
ExpectedCmd(blend, name) ==
    << <<"blender">>, <<"--background">> >>
        \o (IF blend # None THEN << <<"--file">>, blend[1] >> ELSE <<>>)
        \o << <<"--python">>, EnvelopePath(name) >>

\* C15: a call that passes an external file path that is not on disk
\* returns the error message naming that file and never launches the host;
\* a call that passes none, or one that is on disk, launches the host
\* exactly once, with '--background', then '--file <path>' if a path was
\* passed, then '--python <envelope path>'.
C15_MissingFileNeverLaunches ==
    \A e \in ExecIds :
        IF execs[e].blend # None /\ execs[e].blend[1] \notin ExistingPaths
        THEN /\ hosts[e].launches = 0
             /\ Closed(e) /\ execs[e].pc # "idle"
                    => /\ execs[e].pc = "returned"
                       /\ execs[e].ret = BlendNotFound(execs[e].blend)
        ELSE /\ hosts[e].launches <= 1
             /\ hosts[e].state # "none"
                    => hosts[e].cmd = ExpectedCmd(execs[e].blend, execs[e].name)
             /\ execs[e].pc = "returned"
                    => \/ hosts[e].launches = 1
                       \/ execs[e].ret = ErrorExecuting(LaunchError)

\* C17: once the host has exited, the text returned is, with exit code
\* zero, exactly what the output file holds, or the 'no output captured'
\* message when there is no output file, with nothing appended; with
\* another exit code it is that text followed by the diagnostic section
\* with the host's standard output and standard error.
C17_ReturnedTextOfExit ==
    [][\A e \in ExecIds :
        ExecCollect(e) =>
            LET file == outputFiles[execs[e].name]
                base == IF file # NoFile THEN Content(file) ELSE NoOutput
            IN  execs'[e].ret =
                    IF hosts[e].code = 0 THEN base
                    ELSE base \o Diagnostics(hosts[e].stdout, hosts[e].stderr)]_vars

\* C18: when execute returns, whatever the outcome, and its deletions
\* succeeded, neither the envelope path nor the output path of the name
\* exists; a deletion that fails is logged only: execute still returns,
\* and returns the text it had.
C18_ScratchCleanedUp ==
    [][\A e \in ExecIds :
        (execs[e].pc = "cleanup" /\ ExecCleanup(e))
            => /\ execs'[e].pc = "returned"
               /\ execs'[e].ret = execs[e].ret
               /\ ~execs'[e].logged
                    => /\ envelopeFiles'[execs[e].name] = NoFile
                       /\ outputFiles'[execs[e].name] = NoFile]_vars

\* A call that timed out after the host had written its output file has
\* returned, with both scratch files gone and nothing logged.
C18_Witness ==
    \E e \in ExecIds :
        /\ execs[e].pc = "returned"
        /\ execs[e].ret = TimedOut
        /\ hosts[e].wrote
        /\ ~execs[e].logged
        /\ envelopeFiles[execs[e].name] = NoFile
        /\ outputFiles[execs[e].name] = NoFile

---------------------------------------------------------------------------
(* The facade.                                                             *)

\* `part` occurs in `text`.
Mentions(text, part) ==
    \E i \in 0..(Len(text) - Len(part)) :
        SubSeq(text, i + 1, i + Len(part)) = part

\* The message of a timeout, with the configured 60 seconds.
TimeoutMessage == <<"Script execution timed out after ", "60", " seconds">>

\* C16: when the host has not exited as the timeout elapses, execute gives
\* the timeout message with the configured duration, without raising and
\* without reading any output; the host is not running when execute has
\* returned; and the facade saves that message as the result of the
\* script, whose execution_count rises by exactly one.
C16_TimeoutIsSaved ==
    /\ [](\A e \in ExecIds :
            /\ (hosts[e].state \notin {"none", "exited"} /\ execs[e].pc # "idle")
                    => /\ execs[e].pc \in {"wait", "cleanup", "returned"}
                       /\ execs[e].pc # "wait" => execs[e].ret = TimeoutMessage
            /\ execs[e].pc = "returned" => hosts[e].state # "running")
    /\ [][\A e \in ExecIds :
            (execs[e].pc = "returned" /\ execs[e].ret = TimeoutMessage
                /\ FacadeSaveResult(e))
                => LET n == execs[e].name
                   IN  /\ HasKey(metadata, n) /\ HasKey(metadata', n)
                       /\ resultFiles'[n] = File(TimeoutMessage)
                       /\ Lookup(metadata', n).execution_count =
                              Lookup(metadata, n).execution_count + 1
                       /\ reply'.outcome = "ok"]_vars

\* The host was killed at the timeout after it had written its output;
\* the timeout message is the stored result and the count is 1.
C16_Witness ==
    \E e \in ExecIds, n \in FacadeNames :
        /\ hosts[e].state = "killed" /\ hosts[e].wrote
        /\ execs[e].pc = "idle"
        /\ reply.op = "execute_script" /\ reply.name = n
        /\ resultFiles[n] = File(TimeoutMessage)
        /\ HasEntry(n)
        /\ Lookup(metadata, n).execution_count = 1

\* C19: an execute_script call on an existing script, whatever text the
\* harness returned (success, script error, missing external file,
\* timeout, host failure, launch exception), stores that text as the
\* latest result of the name, raises execution_count by exactly one, sets
\* last_executed to the time of saving, and returns a status text that
\* names result://<name>.
C19_ExecuteScriptSavesOutcome ==
    [][\A e \in ExecIds :
        (execs[e].facade /\ execs[e].pc = "returned" /\ FacadeSaveResult(e))
            => LET n == execs[e].name
               IN  /\ HasContent(n) /\ HasKey(metadata, n) /\ HasKey(metadata', n)
                   /\ resultFiles'[n] # NoFile
                   /\ ReadText(Content(resultFiles'[n])) = execs[e].ret
                   /\ Lookup(metadata', n).execution_count =
                          Lookup(metadata, n).execution_count + 1
                   /\ clock' = clock + 1
                   /\ Lookup(metadata', n).last_executed = Some(clock')
                   /\ reply'.op = "execute_script" /\ reply'.name = n
                   /\ reply'.outcome = "ok"
                   /\ Mentions(reply'.ret, <<"result://">> \o n)]_vars

\* A second execution of a script ended with the host failing: its output
\* with the diagnostic section is the stored result and the count is 2.
C19_Witness ==
    \E n \in FacadeNames, out \in HostStdouts, err \in HostStderrs :
        /\ reply = Returned("execute_script", n, ExecutedText(n))
        /\ FacadeIdle
        /\ resultFiles[n] = File(NoOutput \o Diagnostics(out, err))
        /\ HasEntry(n)
        /\ Lookup(metadata, n).execution_count = 2
        /\ Lookup(metadata, n).last_executed = Some(clock)

\* C20: add_script, edit_script, remove_script and execute_script never
\* raise for a malformed, an already existing or a nonexistent name: each
\* returns a text that carries the description of the error.
C20_ToolsNeverRaise ==
    [][\A n \in FacadeNames :
        (reply' # reply /\ reply'.name = n)
            => /\ reply'.outcome = "ok"
               /\ last'.outcome \in {"ValidationError", "AlreadyExists", "NotFound"}
                    => Mentions(reply'.ret, ExceptionText(last'.outcome, n))]_vars

---------------------------------------------------------------------------
(* Durability, order of the listing, frame of edit.                        *)

\* C21: after every completed add, edit, remove and save_result the
\* metadata document on disk is the in-memory index, so a new instance
\* started on the directory between two operations gives the same
\* list_scripts (entries and order), the same get_script and the same
\* get_result for every name as the instance that stopped.
C21_RestartObservesTheSame ==
    /\ [](metadataFile = SaveMetadata(metadata))
    /\ [][Restart =>
            /\ last' = Returned("init", <<>>, <<>>)
            /\ ListScriptsResult(metadata') = ListScriptsResult(metadata)
            /\ \A n \in Names :
                    /\ GetScriptResult(n)' = GetScriptResult(n)
                    /\ GetResultResult(n)' = GetResultResult(n)]_vars

\* A new instance has started on a directory with two scripts, one of them
\* executed, and lists both.
C21_Witness ==
    /\ last = Returned("init", <<>>, <<>>)
    /\ Len(metadata) = 2
    /\ \E n \in Names : HasEntry(n) /\ resultFiles[n] # NoFile
                            /\ Lookup(metadata, n).execution_count = 1

---------------------------------------------------------------------------
(* Executions side by side.                                                *)

\* The text execute is to build from what a host captured, and from what
\* the execution's own host captured.
TextOf(capture, host) ==
    ReadText(WriteText(OutputFileText(capture[1])))
        \o (IF host.code # 0 THEN Diagnostics(host.stdout, host.stderr)
                             ELSE <<>>)

OwnText(e) == TextOf(hosts[e].capture, hosts[e])

\* C22: executions of different names in progress at the same time do not
\* interfere: their envelope paths and output paths are distinct, no step
\* of an execution or of its host writes or deletes a scratch file of
\* another name, and an execution whose envelope ran returns the text that
\* run produced.
C22_DifferentNamesDoNotInterfere ==
    /\ [](\A n \in ConcurrentNames : \A m \in ConcurrentNames \ {n} :
            /\ EnvelopePath(n) # EnvelopePath(m)
            /\ OutputPath(n) # OutputPath(m)
            /\ EnvelopePath(n) # OutputPath(m))
    /\ [][\A e \in ExecIds :
            /\ (~Closed(e) /\ ExecStep(e))
                    => \A n \in FileNames \ {execs[e].name} :
                            /\ envelopeFiles'[n] = envelopeFiles[n]
                            /\ outputFiles'[n] = outputFiles[n]
            /\ (execs[e].pc = "wait" /\ hosts[e].capture # None
                    /\ ExecCollect(e))
                    => execs'[e].ret = OwnText(e)]_vars

\* Two executions of different names are under way: one has collected the
\* text of its own run, the other one's host has written another text.
C22_Witness ==
    \E e \in ExecIds, o \in ExecIds :
        /\ execs[e].name # execs[o].name
        /\ execs[e].pc = "cleanup" /\ hosts[e].capture # None
        /\ execs[e].ret = OwnText(e)
        /\ execs[o].pc = "wait" /\ hosts[o].capture # None
        /\ hosts[o].capture # hosts[e].capture

---------------------------------------------------------------------------
(* Order of the listing.                                                   *)

\* The names of the index, in its order.
Keys(md) == [i \in 1..Len(md) |-> md[i].key]

\* A sequence of names without one of them, the others in their order.
RECURSIVE Without(_, _)
Without(keys, name) ==
    IF keys = <<>> THEN <<>>
    ELSE IF Head(keys) = name THEN Without(Tail(keys), name)
    ELSE <<Head(keys)>> \o Without(Tail(keys), name)

\* C23: list_scripts returns one entry per entry of the index, in the order
\* in which the names were added: an added name goes to the end, edit and
\* save_result move no name, remove takes the name out and leaves the
\* others in their order (so a name removed and added again is last);
\* list_scripts changes nothing.
C23_ListInInsertionOrder ==
    [][/\ (Called("list", <<>>) /\ ListScripts)
            => /\ Len(last'.ret) = Len(metadata)
               /\ [i \in 1..Len(last'.ret) |-> last'.ret[i].name]
                      = Keys(metadata)
               /\ \A i \in 1..Len(metadata) :
                      Lookup(metadata, last'.ret[i].name).created
                          = last'.ret[i].created
               /\ UNCHANGED <<repo, clock, history>>
       /\ \A n \in Names :
            (last'.name = n /\ last'.op # "list")
                => /\ \A c \in Texts :
                        /\ (Called("add", n) /\ last'.outcome = "ok"
                                /\ given'[n] = Some(c) /\ AddScript(n, c))
                              => Keys(metadata') = Append(Keys(metadata), n)
                        /\ (Called("edit", n) /\ given'[n] = Some(c)
                                /\ EditScript(n, c))
                              => Keys(metadata') = Keys(metadata)
                        /\ (Called("save_result", n) /\ lastSaved'[n] = Some(c)
                                /\ SaveResult(n, c))
                              => Keys(metadata') = Keys(metadata)
                   /\ (Called("remove", n) /\ RemoveScript(n))
                        => Keys(metadata') = Without(Keys(metadata), n)]_vars

\* Two scripts are listed, the one added last (after the other, and after
\* a script that was removed since) at the end.
C23_Witness ==
    /\ last.op = "list" /\ Len(last.ret) = 2
    /\ removedSince = {}
    /\ last.ret[1].created = 2
    /\ last.ret[2].created = 3
    /\ last.ret[2].name = <<"a">>

---------------------------------------------------------------------------
(* Frame of edit.                                                          *)

\* C24: a successful edit_script(name, content) changes the content of
\* name and its last_modified and nothing else: created, last_executed and
\* execution_count of name, the result of name, and the content, entry and
\* result of every other name stay; an edit that fails changes nothing.
C24_EditChangesContentOnly ==
    [][\A n \in FileNames, c \in Texts :
        (Called("edit", n) /\ EditScript(n, c))
            => IF last'.outcome = "ok"
               THEN /\ resultFiles' = resultFiles
                    /\ \A m \in FileNames \ {n} : scriptFiles'[m] = scriptFiles[m]
                    /\ Keys(metadata') = Keys(metadata)
                    /\ \A m \in FileNames \ {n} :
                            HasKey(metadata, m)
                                => Lookup(metadata', m) = Lookup(metadata, m)
                    /\ Lookup(metadata', n) =
                            [Lookup(metadata, n) EXCEPT
                                !.last_modified = Lookup(metadata', n).last_modified]
               ELSE UNCHANGED repo]_vars

---------------------------------------------------------------------------
(* The envelope. *)

\* The output file the claim describes for a run of the body: what the
\* body printed, the separator, then what the body wrote to the error
\* channel followed, when the body raised, by the one-line description and
\* the stack trace.
DescribedOutput(c) ==
    c.stdout \o <<"\n", "\n">> \o c.stderr
        \o (IF c.error = None THEN <<>>
            ELSE <<"Error executing script: ">> \o c.error[1] \o <<"\n">>
                    \o Traceback(c.error[1]))

\* C26: when the host runs the envelope it writes the output file, whether
\* or not the body raised, as the captured standard output, a blank-line
\* separator and the captured standard error; when the body raised, the
\* one-line description and the stack trace are both in the standard-error
\* part, after the separator.
C26_OutputFileAsDescribed ==
    [][\A e \in ExecIds :
        HostWritesOutput(e)
            => /\ hosts'[e].capture # None
               /\ outputFiles'[execs[e].name] =
                    File(WriteText(DescribedOutput(hosts'[e].capture[1])))]_vars

\* C27: for every script body, of one line or of several, starting with a
\* line break or not, the envelope execute writes has every line of the
\* body, the first one included, at the indentation of the guarded region,
\* so that the host's interpreter accepts the envelope and the body runs
\* under output capture.
C27_EveryLineInsideGuardedRegion ==
    \A n \in FileNames :
        envelopeFiles[n] # NoFile => WellFormed(Content(envelopeFiles[n]))

---------------------------------------------------------------------------
(* execute_script and the stored results. *)

\* C28: execute_script for a name of the grammar that has no script
\* returns an error text and leaves the repository as it was: no result
\* is stored for the name, no metadata entry is created or changed, and
\* the host process is not launched.
C28_MissingScriptLeavesRepository ==
    [][\A e \in ExecIds :
        /\ \A n \in FacadeNames, b \in FacadeBlendFiles :
                (NameGrammar(n) /\ ~HasContent(n) /\ FacadeExecute(e, n, b))
                    => /\ UNCHANGED repo
                       /\ execs'[e].pc = "handler"
                       /\ hosts'[e].launches = 0
        /\ (/\ execs[e].pc = "handler"
            /\ hosts[e].launches = 0
            /\ NameGrammar(execs[e].name) /\ ~HasContent(execs[e].name)
            /\ FacadeHandler(e))
                => /\ UNCHANGED repo
                   /\ reply' = Returned("execute_script", execs[e].name,
                                        execs[e].ret)]_vars

\* C29: under the calls of the tools, a listed script has a stored result
\* only if its execution_count is at least 1 and its last_executed is set;
\* so a script that was just added has execution_count 0, no
\* last_executed, and get_result gives the soft-miss message.
C29_ResultOnlyAfterExecution ==
    \A n \in FacadeNames :
        (Listed(n) /\ resultFiles[n] # NoFile)
            => /\ Lookup(metadata, n).execution_count >= 1
               /\ Lookup(metadata, n).last_executed # None

====
